---- MODULE Spec2Model ----
(***************************************************************************)
(* Model of the request helpers of package helpers (hasahmad/go-helpers):  *)
(* InArray, the query/route parameter readers and ReadJSON.                *)
(*                                                                         *)
(* Every helper is a stateless function.  A behaviour is one call: Init    *)
(* draws the call's inputs, one action per helper applies it and records   *)
(* what it returned.  Go strings are sequences of one-character strings.   *)
(***************************************************************************)
EXTENDS Integers, Sequences, FiniteSets, TLC

VARIABLES pc,    \* "start" before the call, "done" after it
          args,  \* the inputs of the call
          ret    \* what the call returned (fn names the helper called)

vars == <<pc, args, ret>>

NoRet == [fn |-> "none"]

Range(s) == {s[i] : i \in 1..Len(s)}

SeqsUpTo(S, n) == UNION {[1..k -> S] : k \in 0..n}

(***************************************************************************)
(* InArray                                                                 *)
(***************************************************************************)

\* longest subset / allSet slice drawn
MaxArrLen == 2

\* element values of the slices (T is string | int; strings are drawn)
Elems == {"a", "b", "c"}

\* the inner loop, for _, s := range subset, from index j on, for one v of
\* allSet: early is the return true taken when !checkAll, count the counter
RECURSIVE InArrayInner(_, _, _, _, _)
InArrayInner(subset, v, checkAll, j, count) ==
    IF j > Len(subset) THEN [early |-> FALSE, count |-> count]
    ELSE IF subset[j] = v
         THEN IF ~checkAll THEN [early |-> TRUE, count |-> count]
              ELSE InArrayInner(subset, v, checkAll, j + 1, count + 1)
         ELSE InArrayInner(subset, v, checkAll, j + 1, count)

\* the outer loop, for _, v := range allSet, from index i on, and the final
\* return count == len(subset)
RECURSIVE InArrayOuter(_, _, _, _, _)
InArrayOuter(subset, allSet, checkAll, i, count) ==
    IF i > Len(allSet) THEN count = Len(subset)
    ELSE LET r == InArrayInner(subset, allSet[i], checkAll, 1, count)
         IN  IF r.early THEN TRUE
             ELSE InArrayOuter(subset, allSet, checkAll, i + 1, r.count)

InArray(subset, allSet, checkAll) == InArrayOuter(subset, allSet, checkAll, 1, 0)

InitInArray ==
    /\ pc = "start"
    /\ ret = NoRet
    /\ \E subset \in SeqsUpTo(Elems, MaxArrLen), allSet \in SeqsUpTo(Elems, MaxArrLen),
          checkAll \in BOOLEAN :
          args = [subset |-> subset, allSet |-> allSet, checkAll |-> checkAll]

CallInArray ==
    /\ pc = "start"
    /\ ret' = [fn |-> "InArray",
               value |-> InArray(args.subset, args.allSet, args.checkAll)]
    /\ pc' = "done"
    /\ UNCHANGED args

NextInArray == CallInArray

SpecInArray == InitInArray /\ [][NextInArray]_vars

\* C1: with checkAll, InArray returns true exactly when every element of
\* subset occurs at least once in allSet (repeats in allSet change nothing).
C1_AllIffContained ==
    (pc = "done" /\ ret.fn = "InArray" /\ args.checkAll)
        => (ret.value = (Range(args.subset) \subseteq Range(args.allSet)))

\* C2: without checkAll, InArray returns true exactly when subset and allSet
\* share an element (so false when either is empty).
C2_AnyIffShared ==
    (pc = "done" /\ ret.fn = "InArray" /\ ~args.checkAll)
        => (ret.value = (Range(args.subset) \cap Range(args.allSet) # {}))

(***************************************************************************)
(* strconv and strings, as the readers use them                            *)
(***************************************************************************)

Digits == <<"0", "1", "2", "3", "4", "5", "6", "7", "8", "9">>

IsDigit(c) == \E i \in 1..10 : Digits[i] = c

DigitVal(c) == (CHOOSE i \in 1..10 : Digits[i] = c) - 1

UpperLetters == <<"A", "B", "C", "D", "E", "F", "G", "H", "I", "J", "K", "L", "M",
                  "N", "O", "P", "Q", "R", "S", "T", "U", "V", "W", "X", "Y", "Z">>

LowerLetters == <<"a", "b", "c", "d", "e", "f", "g", "h", "i", "j", "k", "l", "m",
                  "n", "o", "p", "q", "r", "s", "t", "u", "v", "w", "x", "y", "z">>

\* strconv's lower(c), on letters
lower(c) ==
    IF \E i \in 1..26 : UpperLetters[i] = c
    THEN LowerLetters[CHOOSE i \in 1..26 : UpperLetters[i] = c]
    ELSE c

SubStr(s, from, to) == [i \in 1..(to - from + 1) |-> s[from + i - 1]]

\* the digit loop of strconv.Atoi's fast path: a non-digit is a syntax error
RECURSIVE AtoiDigits(_, _, _)
AtoiDigits(s, i, n) ==
    IF i > Len(s) THEN [ok |-> TRUE, n |-> n]
    ELSE IF ~IsDigit(s[i]) THEN [ok |-> FALSE, n |-> 0]
    ELSE AtoiDigits(s, i + 1, n * 10 + DigitVal(s[i]))

\* strconv.Atoi on strings shorter than 19 bytes (its fast path, which cannot
\* overflow a 64-bit int); "" takes the slow path, a syntax error
Atoi(s) ==
    IF Len(s) = 0 THEN [ok |-> FALSE, n |-> 0]
    ELSE LET signed == s[1] \in {"-", "+"}
             body == IF signed THEN Tail(s) ELSE s
             r == AtoiDigits(body, 1, 0)
         IN  IF Len(body) < 1 THEN [ok |-> FALSE, n |-> 0]
             ELSE IF ~r.ok THEN r
             ELSE [ok |-> TRUE, n |-> IF s[1] = "-" THEN -r.n ELSE r.n]

\* strconv's commonPrefixLenIgnoreCase(s, prefix), prefix in lower case
RECURSIVE commonPrefixLenIgnoreCase(_, _, _)
commonPrefixLenIgnoreCase(s, prefix, i) ==
    IF i > Len(s) \/ i > Len(prefix) THEN i - 1
    ELSE IF lower(s[i]) # prefix[i] THEN i - 1
    ELSE commonPrefixLenIgnoreCase(s, prefix, i + 1)

\* strconv's special(s): a signed "inf"/"infinity" or "nan", any case; n is
\* the number of bytes it consumed
special(s) ==
    IF Len(s) = 0 THEN [ok |-> FALSE, n |-> 0]
    ELSE LET signed == s[1] \in {"+", "-"}
             rest == IF signed THEN Tail(s) ELSE s
             nsign == IF signed THEN 1 ELSE 0
             pre == commonPrefixLenIgnoreCase(rest, <<"i", "n", "f", "i", "n", "i", "t", "y">>, 1)
             n == IF 3 < pre /\ pre < 8 THEN 3 ELSE pre
         IN  IF signed \/ lower(s[1]) = "i"
             THEN IF n = 3 \/ n = 8
                  THEN [ok |-> TRUE, n |-> nsign + n, kind |-> "inf", neg |-> s[1] = "-"]
                  ELSE [ok |-> FALSE, n |-> 0]
             ELSE IF lower(s[1]) = "n" /\ commonPrefixLenIgnoreCase(s, <<"n", "a", "n">>, 1) = 3
                  THEN [ok |-> TRUE, n |-> 3, kind |-> "nan", neg |-> FALSE]
                  ELSE [ok |-> FALSE, n |-> 0]

\* the mantissa loop of strconv's readFloat, base 10, from index i: digits
\* with at most one "."; frac counts the digits after the point.  The drawn
\* strings hold no "_" and no "0x" prefix, so neither branch is taken.
RECURSIVE readMantissa(_, _, _, _, _, _)
readMantissa(s, i, sawdot, sawdigits, mant, frac) ==
    LET stop == [i |-> i, sawdigits |-> sawdigits, mant |-> mant, frac |-> frac]
    IN  IF i > Len(s) THEN stop
        ELSE IF s[i] = "."
             THEN IF sawdot THEN stop
                  ELSE readMantissa(s, i + 1, TRUE, sawdigits, mant, frac)
        ELSE IF IsDigit(s[i])
             THEN readMantissa(s, i + 1, sawdot, TRUE, mant * 10 + DigitVal(s[i]),
                               IF sawdot THEN frac + 1 ELSE frac)
        ELSE stop

\* the exponent digits of readFloat, from index i
RECURSIVE readExpDigits(_, _, _)
readExpDigits(s, i, e) ==
    IF i > Len(s) \/ ~IsDigit(s[i]) THEN [i |-> i, e |-> e]
    ELSE readExpDigits(s, i + 1, IF e < 10000 THEN e * 10 + DigitVal(s[i]) ELSE e)

\* strconv's readFloat(s): sign, mantissa, optional exponent; n is the number
\* of bytes consumed, the value read is (-1)^neg * mant * 10^exp
readFloat(s) ==
    LET bad == [ok |-> FALSE, n |-> 0]
    IN  IF Len(s) = 0 THEN bad
        ELSE LET signed == s[1] \in {"+", "-"}
                 m == readMantissa(s, IF signed THEN 2 ELSE 1, FALSE, FALSE, 0, 0)
             IN  IF ~m.sawdigits THEN bad
                 ELSE IF m.i <= Len(s) /\ lower(s[m.i]) = "e"
                 THEN LET j == m.i + 1
                          esigned == j <= Len(s) /\ s[j] \in {"+", "-"}
                          k == IF esigned THEN j + 1 ELSE j
                          x == readExpDigits(s, k, 0)
                      IN  IF j > Len(s) THEN bad
                          ELSE IF k > Len(s) \/ ~IsDigit(s[k]) THEN bad
                          ELSE [ok |-> TRUE, n |-> x.i - 1, neg |-> s[1] = "-",
                                mant |-> m.mant,
                                exp |-> (IF s[j] = "-" THEN -x.e ELSE x.e) - m.frac]
                 ELSE [ok |-> TRUE, n |-> m.i - 1, neg |-> s[1] = "-",
                       mant |-> m.mant, exp |-> -m.frac]

RECURSIVE NumDigits(_)
NumDigits(n) == IF n < 10 THEN 1 ELSE 1 + NumDigits(n \div 10)

RECURSIVE Pow10(_)
Pow10(k) == IF k = 0 THEN 1 ELSE 10 * Pow10(k - 1)

\* whether mant * 10^exp rounds to +Inf as a float32 (strconv's ErrRange):
\* at or above 3.4028235678e38, for a mantissa of at most nine digits
OverflowsFloat32(mant, exp) ==
    IF mant = 0 THEN FALSE
    ELSE LET d == NumDigits(mant)
         IN  IF d + exp > 39 THEN TRUE
             ELSE IF d + exp < 39 THEN FALSE
             ELSE mant * Pow10(9 - d) >= 340282357

\* strconv.ParseFloat(s, 32): special or readFloat must consume all of s
\* (else a syntax error), and the value must not overflow a float32
ParseFloat32(s) ==
    LET sp == special(s)
        rf == readFloat(s)
        bad == [ok |-> FALSE]
    IN  IF sp.ok
        THEN IF sp.n # Len(s) THEN bad
             ELSE [ok |-> TRUE, val |-> [kind |-> sp.kind, neg |-> sp.neg]]
        ELSE IF ~rf.ok \/ rf.n # Len(s) THEN bad
        ELSE IF OverflowsFloat32(rf.mant, rf.exp) THEN bad
        ELSE [ok |-> TRUE,
              val |-> [kind |-> "num", neg |-> rf.neg, mant |-> rf.mant, exp |-> rf.exp]]

\* strings.Split(s, ","), from index i with the piece cur being collected
RECURSIVE SplitFrom(_, _, _)
SplitFrom(s, i, cur) ==
    IF i > Len(s) THEN <<cur>>
    ELSE IF s[i] = "," THEN <<cur>> \o SplitFrom(s, i + 1, <<>>)
    ELSE SplitFrom(s, i + 1, Append(cur, s[i]))

\* a split that drops the empty pieces
Split_DropsEmpty(s) ==
    LET all == SplitFrom(s, 1, <<>>)
    IN  SelectSeq(all, LAMBDA x : x # <<>>)

Split(s) == SplitFrom(s, 1, <<>>)

(***************************************************************************)
(* url.Values, chi route parameters and uuid, as the readers use them      *)
(***************************************************************************)

\* the nil error; an error is the sequence of the pieces of its message
Nil == <<>>

\* url.Values.Has(key): the key is in the map
Has(qs, key) == key \in DOMAIN qs

\* url.Values.Get(key): the first value of the key, "" when it has none
Get(qs, key) ==
    IF key \notin DOMAIN qs THEN <<>>
    ELSE IF Len(qs[key]) = 0 THEN <<>>
    ELSE qs[key][1]

\* chi.URLParam(r, key): the route value of the key, "" when the route has none
URLParam(params, key) == IF key \in DOMAIN params THEN params[key] ELSE <<>>

IsHex(c) == IsDigit(c) \/ lower(c) \in {"a", "b", "c", "d", "e", "f"}

ZeroUUID == [i \in 1..32 |-> "0"]

\* the hex digits of a 36-byte xxxxxxxx-xxxx-xxxx-xxxx-xxxxxxxxxxxx form
StripHyphens(s) ==
    SubStr(s, 1, 8) \o SubStr(s, 10, 13) \o SubStr(s, 15, 18) \o SubStr(s, 20, 23)
        \o SubStr(s, 25, 36)

\* the 16 bytes two hex digits each stand for (xtob), as lower-case digits
HexBytes(h) == [i \in 1..Len(h) |-> lower(h[i])]

\* uuid.Parse on the 36-byte form
ParseCanonical(s) ==
    IF s[9] # "-" \/ s[14] # "-" \/ s[19] # "-" \/ s[24] # "-" THEN [ok |-> FALSE]
    ELSE IF \E i \in 1..32 : ~IsHex(StripHyphens(s)[i]) THEN [ok |-> FALSE]
    ELSE [ok |-> TRUE, uuid |-> HexBytes(StripHyphens(s))]

\* uuid.Parse(s): the 36-byte form, that form after "urn:uuid:" (any case) or
\* in braces (s = s[1:], the 36 bytes after the first), or 32 hex digits; any
\* other length is an error
Parse(s) ==
    IF Len(s) = 36 THEN ParseCanonical(s)
    ELSE IF Len(s) = 36 + 9
         THEN IF [i \in 1..9 |-> lower(s[i])]
                     # <<"u", "r", "n", ":", "u", "u", "i", "d", ":">>
              THEN [ok |-> FALSE]
              ELSE ParseCanonical(SubStr(s, 10, 45))
    ELSE IF Len(s) = 36 + 2 THEN ParseCanonical(SubStr(s, 2, 37))
    ELSE IF Len(s) = 32
         THEN IF \E i \in 1..32 : ~IsHex(s[i]) THEN [ok |-> FALSE]
              ELSE [ok |-> TRUE, uuid |-> HexBytes(s)]
    ELSE [ok |-> FALSE]

\* (*UUID).Scan(src string) on the zero uid: "" is no error and leaves uid
\* zero, a parse error leaves uid zero too
UUIDScan(src) ==
    IF src = <<>> THEN [err |-> FALSE, uuid |-> ZeroUUID]
    ELSE IF ~Parse(src).ok THEN [err |-> TRUE, uuid |-> ZeroUUID]
    ELSE [err |-> FALSE, uuid |-> Parse(src).uuid]

\* (*NullUUID).Scan(value string): Valid is set exactly when UUID.Scan succeeds
NullUUIDScan(value) ==
    [err |-> UUIDScan(value).err, UUID |-> UUIDScan(value).uuid,
     Valid |-> ~UUIDScan(value).err]

\* UUID.String(): the 36-byte form
String(u) ==
    SubStr(u, 1, 8) \o <<"-">> \o SubStr(u, 9, 12) \o <<"-">> \o SubStr(u, 13, 16)
        \o <<"-">> \o SubStr(u, 17, 20) \o <<"-">> \o SubStr(u, 21, 32)

(***************************************************************************)
(* The readers of api_request.go                                           *)
(***************************************************************************)

\* the message "invalid <key> parameter", as its pieces: what
\* fmt.Errorf("invalid %s parameter", key) formats, and for key "id" the text
\* of errors.New("invalid id parameter")
InvalidParameter(key) == <<"invalid ", key, " parameter">>

ReadUUIDParam(params) ==
    LET id == URLParam(params, "id")
        sc == UUIDScan(id)
    IN  IF id = <<>> THEN [value |-> ZeroUUID, err |-> InvalidParameter("id")]
        ELSE IF sc.err \/ String(sc.uuid) = <<>>
             THEN [value |-> sc.uuid, err |-> InvalidParameter("id")]
        ELSE [value |-> sc.uuid, err |-> Nil]

\* the keyed readers without the default of "id" for an empty key
EffectiveKey_NoDefault(key) == key

\* the key the keyed UUID readers look up: "id" for an empty key
EffectiveKey(key) == IF key = "" THEN "id" ELSE key

ReadUUIDParamByKey(params, key0) ==
    LET key == EffectiveKey(key0)
        id == URLParam(params, key)
        sc == UUIDScan(id)
    IN  IF id = <<>> THEN [value |-> ZeroUUID, err |-> InvalidParameter(key)]
        ELSE IF sc.err \/ String(sc.uuid) = <<>>
             THEN [value |-> sc.uuid, err |-> InvalidParameter(key)]
        ELSE [value |-> sc.uuid, err |-> Nil]

\* ReadOptionalUUIDParamByKey without its empty-value case (the body of
\* ReadUUIDParamByKey copied unchanged)
ReadOptionalUUIDParamByKey_NoEmptyCase(params, key0) == ReadUUIDParamByKey(params, key0)

ReadOptionalUUIDParamByKey(params, key0) ==
    LET key == EffectiveKey(key0)
        id == URLParam(params, key)
        sc == UUIDScan(id)
    IN  IF id = <<>> THEN [value |-> ZeroUUID, err |-> Nil]
        ELSE IF sc.err \/ String(sc.uuid) = <<>>
             THEN [value |-> sc.uuid, err |-> InvalidParameter(key)]
        ELSE [value |-> sc.uuid, err |-> Nil]

ReadNullUUIDParamByKey(params, key0) ==
    LET key == EffectiveKey(key0)
        id == URLParam(params, key)
        sc == NullUUIDScan(id)
        uid == [UUID |-> sc.UUID, Valid |-> sc.Valid]
    IN  IF id = <<>>
        THEN [value |-> [UUID |-> ZeroUUID, Valid |-> FALSE],
              err |-> InvalidParameter(key)]
        ELSE IF sc.err \/ ~uid.Valid \/ String(uid.UUID) = <<>>
             THEN [value |-> uid, err |-> InvalidParameter(key)]
        ELSE [value |-> uid, err |-> Nil]

\* ReadString reporting a non-empty value instead of qs.Has(key)
ReadString_FlagNonEmpty(qs, key, defaultValue) ==
    LET s == Get(qs, key)
    IN  IF s = <<>> THEN [value |-> defaultValue, flag |-> FALSE]
        ELSE [value |-> s, flag |-> TRUE]

ReadString(qs, key, defaultValue) ==
    LET exists == Has(qs, key)
        s == Get(qs, key)
    IN  IF s = <<>> THEN [value |-> defaultValue, flag |-> exists]
        ELSE [value |-> s, flag |-> exists]

\* ReadBool comparing the tokens without regard to case
ReadBool_IgnoresCase(qs, key, defaultValue) ==
    LET s == [i \in 1..Len(Get(qs, key)) |-> lower(Get(qs, key)[i])]
    IN  IF s = <<>> THEN [value |-> defaultValue, flag |-> FALSE]
        ELSE IF s = <<"t", "r", "u", "e">> \/ s = <<"t">> \/ s = <<"y">> \/ s = <<"1">>
             THEN [value |-> TRUE, flag |-> TRUE]
        ELSE IF s = <<"f", "a", "l", "s", "e">> \/ s = <<"f">> \/ s = <<"n">> \/ s = <<"0">>
             THEN [value |-> FALSE, flag |-> TRUE]
        ELSE [value |-> defaultValue, flag |-> TRUE]

ReadBool(qs, key, defaultValue) ==
    LET s == Get(qs, key)
    IN  IF s = <<>> THEN [value |-> defaultValue, flag |-> FALSE]
        ELSE IF s = <<"t", "r", "u", "e">> \/ s = <<"t">> \/ s = <<"y">> \/ s = <<"1">>
             THEN [value |-> TRUE, flag |-> TRUE]
        ELSE IF s = <<"f", "a", "l", "s", "e">> \/ s = <<"f">> \/ s = <<"n">> \/ s = <<"0">>
             THEN [value |-> FALSE, flag |-> TRUE]
        ELSE [value |-> defaultValue, flag |-> TRUE]

ReadCSV(qs, key, defaultValue) ==
    LET csv == Get(qs, key)
    IN  IF csv = <<>> THEN [value |-> defaultValue, flag |-> FALSE]
        ELSE [value |-> Split(csv), flag |-> TRUE]

\* ReadInt dropping the conversion error
ReadInt_SwallowsError(qs, key, defaultValue) ==
    LET s == Get(qs, key)
        a == Atoi(s)
    IN  IF s = <<>> \/ ~a.ok THEN [value |-> defaultValue, flag |-> FALSE, err |-> Nil]
        ELSE [value |-> a.n, flag |-> TRUE, err |-> Nil]

ReadInt(qs, key, defaultValue) ==
    LET s == Get(qs, key)
        a == Atoi(s)
    IN  IF s = <<>> THEN [value |-> defaultValue, flag |-> FALSE, err |-> Nil]
        ELSE IF ~a.ok
             THEN [value |-> defaultValue, flag |-> FALSE,
                   err |-> <<"must be an integer value">>]
        ELSE [value |-> a.n, flag |-> TRUE, err |-> Nil]

ReadFloat(qs, key, defaultValue) ==
    LET s == Get(qs, key)
        f == ParseFloat32(s)
    IN  IF s = <<>> THEN [value |-> defaultValue, flag |-> FALSE, err |-> Nil]
        ELSE IF ~f.ok
             THEN [value |-> defaultValue, flag |-> FALSE,
                   err |-> <<"must be a float value">>]
        ELSE [value |-> f.val, flag |-> TRUE, err |-> Nil]

(***************************************************************************)
(* One call of a reader on a request                                       *)
(***************************************************************************)

\* longest query value drawn over Alphabet
MaxStrLen == 2

Alphabet == {"1", "-", ".", "a", ","}

\* query values drawn besides the strings over Alphabet
Tokens ==
    { <<"t", "r", "u", "e">>, <<"t">>, <<"y">>, <<"f", "a", "l", "s", "e">>, <<"f">>,
      <<"n">>, <<"0">>, <<"m", "a", "y", "b", "e">>, <<"T", "R", "U", "E">>,
      <<"a", "b", "c">>, <<"a", ",", "b", ",", "c">>, <<"a", ",", " ", "b">>,
      <<"+", "1">>, <<"1", "e", "1">>, <<"1", "e", "3", "9">>, <<"i", "n", "f">>,
      <<"N", "a", "N">>, <<" ", "1">> }

Strings == SeqsUpTo(Alphabet, MaxStrLen) \cup Tokens

\* the keys looked up, and the keys a request may carry
Keys == {"", "id", "k"}

SourceKeys == {"id", "k"}

\* url.Values: no key, or one key with no value, one value or two values
QueryValues ==
    { <<>> } \cup
    { [kk \in {k} |-> vs] : k \in SourceKeys,
        vs \in {<<>>} \cup {<<v>> : v \in Strings} \cup {<<v, <<"1">>>> : v \in Strings} }

Rep(c, n) == [i \in 1..n |-> c]

CanonicalUUID ==
    Rep("1", 8) \o <<"-">> \o Rep("a", 4) \o <<"-">> \o Rep("4", 4) \o <<"-">>
        \o Rep("b", 4) \o <<"-">> \o Rep("f", 12)

\* route values drawn: "", the forms uuid.Parse takes and malformed ones
RouteStrings ==
    { <<>>,
      CanonicalUUID,
      [i \in 1..36 |-> IF CanonicalUUID[i] = "a" THEN "A" ELSE CanonicalUUID[i]],
      Rep("0", 36),
      Rep("c", 32),
      <<"u", "r", "n", ":", "u", "u", "i", "d", ":">> \o CanonicalUUID,
      <<"u", "r", "l", ":", "u", "u", "i", "d", ":">> \o CanonicalUUID,
      <<"{">> \o CanonicalUUID \o <<"}">>,
      [i \in 1..36 |-> IF i = 36 THEN "g" ELSE CanonicalUUID[i]],
      Rep("c", 36),
      Rep("c", 31),
      <<"4", "2">> }

\* chi's route parameters: none, or one key with its value
RouteParams ==
    { <<>> } \cup { [kk \in {k} |-> v] : k \in SourceKeys, v \in RouteStrings }

StringDefaults == { <<>>, <<"d">> }

CSVDefaults == { <<>>, << <<"d">> >> }

IntDefaults == {0, 7}

FloatDefaults ==
    { [kind |-> "num", neg |-> FALSE, mant |-> 0, exp |-> 0],
      [kind |-> "num", neg |-> FALSE, mant |-> 15, exp |-> -1] }

\* a request carries query values or route parameters (or neither)
InitParams ==
    /\ pc = "start"
    /\ ret = NoRet
    /\ \E qs \in QueryValues, params \in RouteParams, key \in Keys :
          /\ qs = <<>> \/ params = <<>>
          /\ args = [qs |-> qs, params |-> params, key |-> key]

CallReadUUIDParam ==
    /\ pc = "start"
    /\ ret' = [fn |-> "ReadUUIDParam", value |-> ReadUUIDParam(args.params).value,
               err |-> ReadUUIDParam(args.params).err]
    /\ pc' = "done"
    /\ UNCHANGED args

CallReadUUIDParamByKey ==
    /\ pc = "start"
    /\ ret' = [fn |-> "ReadUUIDParamByKey",
               value |-> ReadUUIDParamByKey(args.params, args.key).value,
               err |-> ReadUUIDParamByKey(args.params, args.key).err]
    /\ pc' = "done"
    /\ UNCHANGED args

CallReadOptionalUUIDParamByKey ==
    /\ pc = "start"
    /\ ret' = [fn |-> "ReadOptionalUUIDParamByKey",
               value |-> ReadOptionalUUIDParamByKey(args.params, args.key).value,
               err |-> ReadOptionalUUIDParamByKey(args.params, args.key).err]
    /\ pc' = "done"
    /\ UNCHANGED args

CallReadNullUUIDParamByKey ==
    /\ pc = "start"
    /\ ret' = [fn |-> "ReadNullUUIDParamByKey",
               value |-> ReadNullUUIDParamByKey(args.params, args.key).value,
               err |-> ReadNullUUIDParamByKey(args.params, args.key).err]
    /\ pc' = "done"
    /\ UNCHANGED args

CallReadString ==
    /\ pc = "start"
    /\ \E d \in StringDefaults :
          ret' = [fn |-> "ReadString", defaultValue |-> d,
                  value |-> ReadString(args.qs, args.key, d).value,
                  flag |-> ReadString(args.qs, args.key, d).flag]
    /\ pc' = "done"
    /\ UNCHANGED args

CallReadBool ==
    /\ pc = "start"
    /\ \E d \in BOOLEAN :
          ret' = [fn |-> "ReadBool", defaultValue |-> d,
                  value |-> ReadBool(args.qs, args.key, d).value,
                  flag |-> ReadBool(args.qs, args.key, d).flag]
    /\ pc' = "done"
    /\ UNCHANGED args

CallReadCSV ==
    /\ pc = "start"
    /\ \E d \in CSVDefaults :
          ret' = [fn |-> "ReadCSV", defaultValue |-> d,
                  value |-> ReadCSV(args.qs, args.key, d).value,
                  flag |-> ReadCSV(args.qs, args.key, d).flag]
    /\ pc' = "done"
    /\ UNCHANGED args

CallReadInt ==
    /\ pc = "start"
    /\ \E d \in IntDefaults :
          ret' = [fn |-> "ReadInt", defaultValue |-> d,
                  value |-> ReadInt(args.qs, args.key, d).value,
                  flag |-> ReadInt(args.qs, args.key, d).flag,
                  err |-> ReadInt(args.qs, args.key, d).err]
    /\ pc' = "done"
    /\ UNCHANGED args

CallReadFloat ==
    /\ pc = "start"
    /\ \E d \in FloatDefaults :
          ret' = [fn |-> "ReadFloat", defaultValue |-> d,
                  value |-> ReadFloat(args.qs, args.key, d).value,
                  flag |-> ReadFloat(args.qs, args.key, d).flag,
                  err |-> ReadFloat(args.qs, args.key, d).err]
    /\ pc' = "done"
    /\ UNCHANGED args

NextParams ==
    \/ CallReadUUIDParam
    \/ CallReadUUIDParamByKey
    \/ CallReadOptionalUUIDParamByKey
    \/ CallReadNullUUIDParamByKey
    \/ CallReadString
    \/ CallReadBool
    \/ CallReadCSV
    \/ CallReadInt
    \/ CallReadFloat

SpecParams == InitParams /\ [][NextParams]_vars

(***************************************************************************)
(* Properties of the readers                                               *)
(***************************************************************************)

QueryFns == {"ReadString", "ReadBool", "ReadCSV", "ReadInt", "ReadFloat"}

KeyedUUIDFns ==
    {"ReadUUIDParamByKey", "ReadOptionalUUIDParamByKey", "ReadNullUUIDParamByKey"}

UUIDFns == KeyedUUIDFns \cup {"ReadUUIDParam"}

\* the error a call returned; a reader with no error result returns none
ErrOf(r) == IF "err" \in DOMAIN r THEN r.err ELSE Nil

\* the route key a UUID reader looked up
LookedUpKey == IF ret.fn = "ReadUUIDParam" THEN "id" ELSE EffectiveKey(args.key)

QueryKeyAbsent == ret.fn \in QueryFns /\ args.key \notin DOMAIN args.qs

RouteKeyAbsent == ret.fn \in UUIDFns /\ LookedUpKey \notin DOMAIN args.params

\* the first query value of the key, as the call saw it
QueryValue == Get(args.qs, args.key)

\* whether a query value converts to the type the reader returns
Converts(fn, s) == IF fn = "ReadInt" THEN Atoi(s).ok ELSE ParseFloat32(s).ok

TypeError(fn) ==
    IF fn = "ReadInt" THEN <<"must be an integer value">> ELSE <<"must be a float value">>

\* C3: for a key absent from the parameter source every accessor returns no
\* error, and every accessor that takes a default returns it with flag false.
C3_AbsentNoError ==
    pc = "done" =>
        /\ QueryKeyAbsent =>
              ErrOf(ret) = Nil /\ ret.value = ret.defaultValue /\ ret.flag = FALSE
        /\ RouteKeyAbsent => ret.err = Nil

\* C3 as amended: for an absent key the query readers return the default,
\* flag false and no error; ReadOptionalUUIDParamByKey returns the zero UUID
\* and no error; ReadUUIDParam, ReadUUIDParamByKey and ReadNullUUIDParamByKey
\* return the error "invalid <key> parameter".
C3_AbsentDefaultOrInvalid ==
    pc = "done" =>
        /\ QueryKeyAbsent =>
              ErrOf(ret) = Nil /\ ret.value = ret.defaultValue /\ ret.flag = FALSE
        /\ (RouteKeyAbsent /\ ret.fn = "ReadOptionalUUIDParamByKey") =>
              ret.err = Nil /\ ret.value = ZeroUUID
        /\ (RouteKeyAbsent /\ ret.fn # "ReadOptionalUUIDParamByKey") =>
              ret.err = <<"invalid ", LookedUpKey, " parameter">>

C3_Witness ==
    /\ pc = "done"
    /\ ret.fn = "ReadOptionalUUIDParamByKey"
    /\ args.key = "k"
    /\ DOMAIN args.params = {"id"}
    /\ ret.err = Nil

\* C4: ReadInt and ReadFloat return the default and the type-specific error
\* whenever the key is present with an empty or unparseable value; the error
\* is nil only when the key is absent or the value parses.
C4_PresentBadValueErrors ==
    (pc = "done" /\ ret.fn \in {"ReadInt", "ReadFloat"}) =>
        /\ (Has(args.qs, args.key) /\ (QueryValue = <<>> \/ ~Converts(ret.fn, QueryValue)))
              => (ret.value = ret.defaultValue /\ ret.err = TypeError(ret.fn))
        /\ ret.err = Nil
              => (~Has(args.qs, args.key) \/ Converts(ret.fn, QueryValue))

\* C4 as amended: ReadInt and ReadFloat return the default and the
\* type-specific error whenever the value is non-empty and unparseable; the
\* error is nil exactly when the value is empty (the key absent, or present
\* with no or an empty first value) or the value parses.
C4_NonEmptyBadValueErrors ==
    (pc = "done" /\ ret.fn \in {"ReadInt", "ReadFloat"}) =>
        /\ (QueryValue # <<>> /\ ~Converts(ret.fn, QueryValue))
              => (ret.value = ret.defaultValue /\ ret.err = TypeError(ret.fn))
        /\ ret.err = Nil <=> (QueryValue = <<>> \/ Converts(ret.fn, QueryValue))
        /\ QueryValue = <<>> => ret.value = ret.defaultValue

C4_Witness ==
    /\ pc = "done"
    /\ ret.fn = "ReadInt"
    /\ QueryValue = <<"a", "b", "c">>
    /\ ret.defaultValue = 7
    /\ ret.value = 7
    /\ ret.err = <<"must be an integer value">>

TrueTokens == { <<"t", "r", "u", "e">>, <<"t">>, <<"y">>, <<"1">> }

FalseTokens == { <<"f", "a", "l", "s", "e">>, <<"f">>, <<"n">>, <<"0">> }

\* C7: ReadBool maps exactly "true", "t", "y", "1" to (true, true) and exactly
\* "false", "f", "n", "0" to (false, true), whatever the default; any other
\* non-empty value gives (default, true); ReadBool has no error result.
C7_BoolTokens ==
    (pc = "done" /\ ret.fn = "ReadBool" /\ QueryValue # <<>>) =>
        /\ ret.flag = TRUE
        /\ "err" \notin DOMAIN ret
        /\ ret.value = (IF QueryValue \in TrueTokens THEN TRUE
                        ELSE IF QueryValue \in FalseTokens THEN FALSE
                        ELSE ret.defaultValue)

C7_Witness ==
    /\ pc = "done"
    /\ ret.fn = "ReadBool"
    /\ QueryValue = <<"T", "R", "U", "E">>
    /\ ret.defaultValue = FALSE
    /\ ret.value = FALSE
    /\ ret.flag = TRUE

\* C8: the flag of ReadString, ReadBool, ReadCSV, ReadInt and ReadFloat is
\* true exactly when the key exists in the query values.
C8_FlagIsPresence ==
    (pc = "done" /\ ret.fn \in QueryFns) => (ret.flag = Has(args.qs, args.key))

\* C8 as amended: the flag of ReadString is true exactly when the key exists;
\* the flag of ReadBool and ReadCSV is true exactly when the key's first value
\* is non-empty; the flag of ReadInt and ReadFloat is true exactly when that
\* value is non-empty and converts.  No flag is true for an absent key.
C8_FlagIsPresenceOrValidity ==
    (pc = "done" /\ ret.fn \in QueryFns) =>
        /\ ret.fn = "ReadString" => ret.flag = Has(args.qs, args.key)
        /\ ret.fn \in {"ReadBool", "ReadCSV"} => ret.flag = (QueryValue # <<>>)
        /\ ret.fn \in {"ReadInt", "ReadFloat"} =>
              ret.flag = (QueryValue # <<>> /\ Converts(ret.fn, QueryValue))
        /\ ret.flag => Has(args.qs, args.key)

C8_Witness ==
    /\ pc = "done"
    /\ ret.fn = "ReadString"
    /\ Has(args.qs, args.key)
    /\ QueryValue = <<>>
    /\ ret.flag = TRUE

\* s with the elements of pieces joined by ","
RECURSIVE Join(_)
Join(pieces) ==
    IF Len(pieces) = 0 THEN <<>>
    ELSE IF Len(pieces) = 1 THEN pieces[1]
    ELSE pieces[1] \o <<",">> \o Join(Tail(pieces))

NumCommas(s) == Cardinality({i \in 1..Len(s) : s[i] = ","})

\* C9: for a present, non-empty value s ReadCSV returns, with flag true, the
\* comma-free pieces of s in order, untrimmed, empty ones kept: one more piece
\* than s has commas, no piece holding a comma, and the pieces joined by ","
\* giving back s.
C9_CSVPieces ==
    (pc = "done" /\ ret.fn = "ReadCSV" /\ QueryValue # <<>>) =>
        /\ ret.flag = TRUE
        /\ Len(ret.value) = NumCommas(QueryValue) + 1
        /\ \A i \in 1..Len(ret.value) : "," \notin Range(ret.value[i])
        /\ Join(ret.value) = QueryValue

C9_Witness ==
    /\ pc = "done"
    /\ ret.fn = "ReadCSV"
    /\ QueryValue = <<"a", ",", " ", "b">>
    /\ ret.value = << <<"a">>, <<" ", "b">> >>

\* C10: for the keyed UUID readers, an empty key read as "id": the error is
\* nil exactly when the route value parses as a UUID or, for
\* ReadOptionalUUIDParamByKey only, is empty (the zero UUID is returned);
\* every error is "invalid <key> parameter" for the key looked up; and
\* ReadNullUUIDParamByKey returns Valid = true whenever it returns no error.
C10_KeyedUUID ==
    (pc = "done" /\ ret.fn \in KeyedUUIDFns) =>
        LET id == URLParam(args.params, IF args.key = "" THEN "id" ELSE args.key)
            key == IF args.key = "" THEN "id" ELSE args.key
        IN  /\ ret.err = Nil <=>
                  \/ Parse(id).ok
                  \/ ret.fn = "ReadOptionalUUIDParamByKey" /\ id = <<>>
            /\ ret.err # Nil => ret.err = <<"invalid ", key, " parameter">>
            /\ (ret.fn = "ReadOptionalUUIDParamByKey" /\ id = <<>>) => ret.value = ZeroUUID
            /\ (ret.fn = "ReadNullUUIDParamByKey" /\ ret.err = Nil) => ret.value.Valid = TRUE

C10_Witness ==
    /\ pc = "done"
    /\ ret.fn = "ReadNullUUIDParamByKey"
    /\ args.key = ""
    /\ ret.err = Nil
    /\ ret.value.Valid = TRUE

(***************************************************************************)
(* ReadJSON                                                                *)
(*                                                                         *)
(* A request body is a sequence of segments, each a run of len bytes of    *)
(* one kind:                                                               *)
(*   "ws"   white space                                                    *)
(*   "val"  one complete JSON object that decodes into dst ({} at len 2)   *)
(*   "unk"  one complete JSON object with a field dst does not have        *)
(*   "typ"  one complete JSON value of the wrong type (for dst's field     *)
(*          named field, or for dst itself when field is "")               *)
(*   "bad"  bytes the scanner rejects at the first of them                 *)
(*   "open" the start of a value that no later byte of the body ends       *)
(***************************************************************************)

\* maxBytes := 1_048_576
maxBytes == 1048576

\* most segments in a body drawn
MaxSegs == 3

Seg(kind, len, field) == [kind |-> kind, len |-> len, field |-> field]

Segments ==
    { Seg("ws", 1, ""), Seg("ws", maxBytes, ""),
      Seg("val", 2, ""), Seg("val", maxBytes, ""), Seg("val", maxBytes + 1, ""),
      Seg("unk", 12, "extra"),
      Seg("typ", 1, ""), Seg("typ", 9, "age"),
      Seg("bad", 1, ""),
      Seg("open", 1, "") }

\* an "open" segment is the last one: nothing after it ends its value
Bodies ==
    { b \in SeqsUpTo(Segments, MaxSegs) :
        \A i \in 1..Len(b) : b[i].kind = "open" => i = Len(b) }

\* the bytes of the first n segments
RECURSIVE SumLen(_, _)
SumLen(body, n) == IF n = 0 THEN 0 ELSE SumLen(body, n - 1) + body[n].len

Total(body) == SumLen(body, Len(body))

\* errors of json.Decoder.Decode: a type, and what ReadJSON reads of it
JSONErr(type, field, offset, text) ==
    [type |-> type, Field |-> field, Offset |-> offset, text |-> text]

NoErr == JSONErr("nil", "", 0, <<>>)

EOF == JSONErr("io.EOF", "", 0, <<"EOF">>)

ErrUnexpectedEOF == JSONErr("io.ErrUnexpectedEOF", "", 0, <<"unexpected EOF">>)

\* what http.MaxBytesReader returns once more than maxBytes bytes were asked for
RequestBodyTooLarge == JSONErr("http", "", 0, <<"http: request body too large">>)

UnknownField(field) ==
    JSONErr("json", "", 0, <<"json: unknown field ", "\"", field, "\"">>)

\* the reader behind the decoder hands out the first maxBytes bytes of the
\* body and then ends: io.EOF for a body within the limit, else the error
ReadEnd(body) == IF Total(body) > maxBytes THEN RequestBodyTooLarge ELSE EOF

\* Decoder.readValue from segment i on: every byte within the limit is scanned
\* before the reader's end is looked at.  seg is the segment of the value read.
RECURSIVE readValue(_, _)
readValue(body, i) ==
    IF i > Len(body) THEN [err |-> ReadEnd(body), seg |-> i]
    ELSE IF SumLen(body, i - 1) >= maxBytes THEN [err |-> RequestBodyTooLarge, seg |-> i]
    ELSE IF body[i].kind = "ws" THEN readValue(body, i + 1)
    ELSE IF body[i].kind = "bad"
         THEN [err |-> JSONErr("SyntaxError", "", SumLen(body, i - 1) + 1, <<>>), seg |-> i]
    ELSE IF body[i].kind = "open"
         THEN [err |-> IF Total(body) > maxBytes THEN RequestBodyTooLarge
                       ELSE ErrUnexpectedEOF,
               seg |-> i]
    ELSE IF SumLen(body, i) > maxBytes THEN [err |-> RequestBodyTooLarge, seg |-> i]
    ELSE [err |-> NoErr, seg |-> i]

\* decodeState.unmarshal of a complete value into v: dst when toDst, else the
\* &struct{}{} of the second Decode; unknown fields are disallowed
unmarshal(seg, toDst, dstValid) ==
    IF toDst /\ ~dstValid THEN JSONErr("InvalidUnmarshalError", "", 0, <<>>)
    ELSE IF seg.kind = "typ" THEN JSONErr("UnmarshalTypeError", seg.field, seg.len, <<>>)
    ELSE IF toDst
         THEN IF seg.kind = "unk" THEN UnknownField(seg.field) ELSE NoErr
    ELSE IF seg.len = 2 THEN NoErr
    ELSE UnknownField("")

\* dec.Decode(v) with the decoder at segment i: next is where it stands after
Decode(body, i, toDst, dstValid) ==
    LET rv == readValue(body, i)
    IN  IF rv.err # NoErr THEN [err |-> rv.err, next |-> rv.seg]
        ELSE [err |-> unmarshal(body[rv.seg], toDst, dstValid), next |-> rv.seg + 1]

\* the switch of ReadJSON over the first Decode's error
DecodeError(err) ==
    IF err.type = "SyntaxError"
    THEN [panicked |-> FALSE,
          err |-> <<"body contains badly-formed JSON (at character ", err.Offset, ")">>]
    ELSE IF err.type = "io.ErrUnexpectedEOF"
    THEN [panicked |-> FALSE, err |-> <<"body contains badly-formed JSON">>]
    ELSE IF err.type = "UnmarshalTypeError"
    THEN IF err.Field # ""
         THEN [panicked |-> FALSE,
               err |-> <<"body contains incorrect JSON type for field ", "\"", err.Field, "\"">>]
         ELSE [panicked |-> FALSE,
               err |-> <<"body contains incorrect JSON type (at character ", err.Offset, ")">>]
    ELSE IF err.type = "io.EOF"
    THEN [panicked |-> FALSE, err |-> <<"body must not be empty">>]
    ELSE IF Len(err.text) > 0 /\ err.text[1] = "json: unknown field "
    THEN [panicked |-> FALSE, err |-> <<"body contains unknown key ">> \o Tail(err.text)]
    ELSE IF err.text = <<"http: request body too large">>
    THEN [panicked |-> FALSE, err |-> <<"body must not be larger than ", maxBytes, " bytes">>]
    ELSE IF err.type = "InvalidUnmarshalError"
    THEN [panicked |-> TRUE, err |-> <<"json: Unmarshal(non-pointer)">>]
    ELSE [panicked |-> FALSE, err |-> err.text]

\* ReadJSON without the second Decode
ReadJSON_NoSecondDecode(body, dstValid) ==
    LET first == Decode(body, 1, TRUE, dstValid)
    IN  IF first.err # NoErr THEN DecodeError(first.err)
        ELSE [panicked |-> FALSE, err |-> Nil]

ReadJSON(body, dstValid) ==
    LET first == Decode(body, 1, TRUE, dstValid)
        second == Decode(body, first.next, FALSE, TRUE)
    IN  IF first.err # NoErr THEN DecodeError(first.err)
        ELSE IF second.err # EOF
             THEN [panicked |-> FALSE,
                   err |-> <<"body must only contain a single JSON value">>]
        ELSE [panicked |-> FALSE, err |-> Nil]

\* dstValid: dst is a non-nil pointer
InitJSON ==
    /\ pc = "start"
    /\ ret = NoRet
    /\ \E body \in Bodies, dstValid \in BOOLEAN :
          args = [body |-> body, dstValid |-> dstValid]

CallReadJSON ==
    /\ pc = "start"
    /\ ret' = [fn |-> "ReadJSON",
               err |-> ReadJSON(args.body, args.dstValid).err,
               panicked |-> ReadJSON(args.body, args.dstValid).panicked]
    /\ pc' = "done"
    /\ UNCHANGED args

NextJSON == CallReadJSON

SpecJSON == InitJSON /\ [][NextJSON]_vars

\* the segments of the body that are not white space
Content(body) == SelectSeq(body, LAMBDA s : s.kind # "ws")

\* the index of the first segment that is not white space (Len + 1 if none)
FirstContent(body) ==
    IF \E i \in 1..Len(body) : body[i].kind # "ws"
    THEN CHOOSE i \in 1..Len(body) :
            body[i].kind # "ws" /\ \A j \in 1..(i - 1) : body[j].kind = "ws"
    ELSE Len(body) + 1

\* the body's first value is a complete one, of the given kind, within the limit
FirstValueIs(body, kind) ==
    /\ FirstContent(body) <= Len(body)
    /\ body[FirstContent(body)].kind = kind
    /\ SumLen(body, FirstContent(body)) <= maxBytes

\* C5: a body longer than 1,048,576 bytes always fails with "body must not be
\* larger than 1048576 bytes", whatever its content; stated on the case the
\* claim singles out: the first 1,048,576 bytes hold one complete value that
\* is valid for dst, and the excess bytes (here white space) follow it.
C5_OversizeReportsLimit ==
    (/\ pc = "done"
     /\ ret.fn = "ReadJSON"
     /\ Total(args.body) > 1048576
     /\ args.dstValid
     /\ FirstValueIs(args.body, "val")
     /\ Len(Content(args.body)) = 1)
        => ret.err = <<"body must not be larger than ", 1048576, " bytes">>

\* C6: ReadJSON returns nil exactly when the body, within the size limit, is
\* one JSON value that decodes into dst with no unknown field and nothing but
\* the end of input after it; content after the first value gives "body must
\* only contain a single JSON value"; an unknown field gives an error naming
\* the field, never nil.
C6_SingleValue ==
    (pc = "done" /\ ret.fn = "ReadJSON") =>
        /\ ret.err = Nil <=>
              /\ Total(args.body) <= 1048576
              /\ args.dstValid
              /\ Len(Content(args.body)) = 1
              /\ Content(args.body)[1].kind = "val"
        /\ (args.dstValid /\ FirstValueIs(args.body, "val") /\ Len(Content(args.body)) > 1)
              => ret.err = <<"body must only contain a single JSON value">>
        /\ (args.dstValid /\ FirstValueIs(args.body, "unk"))
              => ret.err = <<"body contains unknown key ", "\"",
                             args.body[FirstContent(args.body)].field, "\"">>

C6_Witness ==
    /\ pc = "done"
    /\ ret.fn = "ReadJSON"
    /\ args.dstValid
    /\ Len(args.body) = 2
    /\ args.body[1].kind = "val"
    /\ args.body[2].kind = "val"
    /\ ret.err = <<"body must only contain a single JSON value">>

====
